---- MODULE Spec2Model ----
(***************************************************************************)
(* Shopping cart system: Product, CartItem, Coupon, ShoppingCart and the   *)
(* services built on them (ProductService, CartService, DiscountService).  *)
(*                                                                         *)
(* Objects are shared by reference in the source.  A Product object is     *)
(* identified by its id (a uuid, one object per id), so a CartItem holds   *)
(* the product id and every read goes to the one record in `products`;     *)
(* `catalog` is the key set of ProductService.products, which may no       *)
(* longer hold a product that a cart item still references.  Coupons are   *)
(* handled the same way through their code.                                *)
(*                                                                         *)
(* Money is counted in 1/Scale of a currency unit, so that the two         *)
(* divisions by 100 of the source (product discount, percentage coupon)    *)
(* are exact on integers.                                                  *)
(***************************************************************************)
EXTENDS Integers, Sequences, FiniteSets, TLC

VARIABLES
    products,   \* product id -> the Product object of that id
    catalog,    \* the ids held by ProductService.products
    coupons,    \* coupon code -> the Coupon object held by DiscountService.coupons
    carts,      \* cart id -> the ShoppingCart held by CartService.carts
    now,        \* the clock (new Date())
    ret,        \* the last call: operation, arguments, what it returned
    calls       \* checkout invocation -> where it stands between its awaits

vars == <<products, catalog, coupons, carts, now, ret, calls>>

(***************************************************************************)
(* Bounds of the model                                                     *)
(***************************************************************************)
MaxStock == 2
MaxQty == 2
MaxUsage == 2

Scale == 100 * 100
Money(x) == x * Scale

ProductIds == {"p1", "p2"}
CouponCodes == {"PCT10", "FIX20"}
CartIds == {"c1"}
UnknownId == "none"

\* quantities a caller may pass: non-positive, in range, above any stock
Quantities == (0 - 1) .. (MaxQty + 1)

Max(a, b) == IF a >= b THEN a ELSE b
Min(a, b) == IF a <= b THEN a ELSE b

RECURSIVE SeqSum(_)
SeqSum(s) == IF s = <<>> THEN 0 ELSE Head(s) + SeqSum(Tail(s))

(***************************************************************************)
(* Product                                                                 *)
(***************************************************************************)
NewProduct(name, price, category, stock, rating, discount) ==
    [name |-> name, price |-> price, category |-> category,
     stock |-> stock, rating |-> rating, discount |-> discount]

\* getFinalPrice that applies the percentage whatever its sign
getFinalPrice_Unguarded(p) == (p.price * (100 - p.discount)) \div 100

getFinalPrice(p) ==
    IF p.discount > 0
    THEN (p.price * (100 - p.discount)) \div 100
    ELSE p.price

getDiscountAmount(p) == p.price - getFinalPrice(p)

isAvailable(p, quantity) == p.stock >= quantity

\* Product.reduceStock without the availability test
Product_reduceStock_Unchecked(p, quantity) ==
    [product |-> [p EXCEPT !.stock = p.stock - quantity], ok |-> TRUE]

\* Product.reduceStock taking one unit whatever the quantity asked
Product_reduceStock_OneUnit(p, quantity) ==
    IF isAvailable(p, quantity)
    THEN [product |-> [p EXCEPT !.stock = p.stock - 1], ok |-> TRUE]
    ELSE [product |-> p, ok |-> FALSE]

\* Product.reduceStock: the product afterwards and the value returned
Product_reduceStock(p, quantity) ==
    IF isAvailable(p, quantity)
    THEN [product |-> [p EXCEPT !.stock = p.stock - quantity], ok |-> TRUE]
    ELSE [product |-> p, ok |-> FALSE]

Product_increaseStock(p, quantity) == [p EXCEPT !.stock = p.stock + quantity]

AllowedProductFields == {"name", "price", "category", "stock", "rating", "discount"}

\* Product.update: every allowed field that updates holds is assigned
Product_update(p, updates) ==
    [f \in DOMAIN p |->
        IF f \in (DOMAIN updates) \cap AllowedProductFields THEN updates[f] ELSE p[f]]

\* Product.validate().isValid
Product_validate(p) ==
    /\ p.name # ""
    /\ ~(p.price <= 0)
    /\ p.category # ""
    /\ ~(p.stock < 0)
    /\ ~(p.rating < 0 \/ p.rating > 5)
    /\ ~(p.discount < 0 \/ p.discount > 100)

(***************************************************************************)
(* CartItem: [product |-> product id, quantity |-> n]                      *)
(***************************************************************************)
NewCartItem(pid, quantity) == [product |-> pid, quantity |-> quantity]

Item_getSubtotal(P, item) == getFinalPrice(P[item.product]) * item.quantity

Item_getTotalDiscount(P, item) == getDiscountAmount(P[item.product]) * item.quantity

Item_getOriginalSubtotal(P, item) == P[item.product].price * item.quantity

\* CartItem.updateQuantity without the stock test
Item_updateQuantity_NoStock(P, item, newQuantity) ==
    IF newQuantity <= 0
    THEN [item |-> item, ok |-> FALSE]
    ELSE [item |-> [item EXCEPT !.quantity = newQuantity], ok |-> TRUE]

\* CartItem.updateQuantity that takes what the stock allows when asked for more
Item_updateQuantity_Clamped(P, item, newQuantity) ==
    IF newQuantity <= 0
    THEN [item |-> item, ok |-> FALSE]
    ELSE IF ~isAvailable(P[item.product], newQuantity)
    THEN [item |-> [item EXCEPT !.quantity = P[item.product].stock], ok |-> FALSE]
    ELSE [item |-> [item EXCEPT !.quantity = newQuantity], ok |-> TRUE]

\* CartItem.updateQuantity: the item afterwards and the value returned
Item_updateQuantity(P, item, newQuantity) ==
    IF newQuantity <= 0
    THEN [item |-> item, ok |-> FALSE]
    ELSE IF ~isAvailable(P[item.product], newQuantity)
    THEN [item |-> item, ok |-> FALSE]
    ELSE [item |-> [item EXCEPT !.quantity = newQuantity], ok |-> TRUE]

Item_increaseQuantity(P, item, amount) ==
    Item_updateQuantity(P, item, item.quantity + amount)

Item_decreaseQuantity(P, item, amount) ==
    Item_updateQuantity(P, item, item.quantity - amount)

\* CartItem.validate() without the stock test
Item_validate_NoStock(P, item) ==
    /\ Product_validate(P[item.product])
    /\ ~(item.quantity <= 0)

\* CartItem.validate().isValid
Item_validate(P, item) ==
    /\ Product_validate(P[item.product])
    /\ ~(item.quantity <= 0)
    /\ isAvailable(P[item.product], item.quantity)

Item_isSameProduct(item, otherItem) == item.product = otherItem.product

Item_combineWith(P, item, otherItem) ==
    IF ~Item_isSameProduct(item, otherItem)
    THEN [item |-> item, ok |-> FALSE]
    ELSE Item_updateQuantity(P, item, item.quantity + otherItem.quantity)

\* CartItem.toJSON: the values frozen into an order line
Item_toJSON(P, item) ==
    [product |-> item.product,
     price |-> P[item.product].price,
     stock |-> P[item.product].stock,
     quantity |-> item.quantity,
     subtotal |-> Item_getSubtotal(P, item),
     originalSubtotal |-> Item_getOriginalSubtotal(P, item),
     totalDiscount |-> Item_getTotalDiscount(P, item)]

(***************************************************************************)
(* Coupon.  expiryDate = 0 and usageLimit = 0 stand for null: the source   *)
(* tests both fields for truthiness only, which null and 0 fail alike.     *)
(***************************************************************************)
NewCoupon(type, value, minimumAmount, expiryDate, usageLimit) ==
    [type |-> type, value |-> value, minimumAmount |-> minimumAmount,
     expiryDate |-> expiryDate, usageLimit |-> usageLimit,
     usageCount |-> 0, isActive |-> TRUE]

isValid(c, t) ==
    IF ~c.isActive THEN FALSE
    ELSE IF c.expiryDate # 0 /\ t > c.expiryDate THEN FALSE
    ELSE IF c.usageLimit # 0 /\ c.usageCount >= c.usageLimit THEN FALSE
    ELSE TRUE

\* calculateDiscount with a fixed value that is not held to the amount
calculateDiscount_Uncapped(c, t, amount) ==
    IF ~isValid(c, t) \/ amount < c.minimumAmount THEN 0
    ELSE IF c.type = "percentage" THEN (amount * c.value) \div 100
    ELSE IF c.type = "fixed" THEN c.value
    ELSE 0

calculateDiscount(c, t, amount) ==
    IF ~isValid(c, t) \/ amount < c.minimumAmount THEN 0
    ELSE IF c.type = "percentage" THEN (amount * c.value) \div 100
    ELSE IF c.type = "fixed" THEN Min(c.value, amount)
    ELSE 0

\* Coupon.apply that counts a use whether the coupon is valid or not
Coupon_apply_Unchecked(c, t) ==
    [coupon |-> [c EXCEPT !.usageCount = c.usageCount + 1], ok |-> TRUE]

\* Coupon.apply that reports success without counting the use
Coupon_apply_NoCount(c, t) ==
    IF ~isValid(c, t)
    THEN [coupon |-> c, ok |-> FALSE]
    ELSE [coupon |-> c, ok |-> TRUE]

\* Coupon.apply: the coupon afterwards and the value returned
Coupon_apply(c, t) ==
    IF ~isValid(c, t)
    THEN [coupon |-> c, ok |-> FALSE]
    ELSE [coupon |-> [c EXCEPT !.usageCount = c.usageCount + 1], ok |-> TRUE]

\* Coupon.revert without the floor at 0
Coupon_revert_Unfloored(c) == [c EXCEPT !.usageCount = c.usageCount - 1]

Coupon_revert(c) ==
    IF c.usageCount > 0 THEN [c EXCEPT !.usageCount = c.usageCount - 1] ELSE c

Coupon_deactivate(c) == [c EXCEPT !.isActive = FALSE]

Coupon_activate(c) == [c EXCEPT !.isActive = TRUE]

\* Coupon.validate().isValid (the code is the key of `coupons`, never empty)
Coupon_validate(c) ==
    /\ c.type \in {"percentage", "fixed"}
    /\ ~(c.value <= 0)
    /\ ~(c.type = "percentage" /\ c.value > 100)
    /\ ~(c.minimumAmount < 0)
    /\ ~(c.usageLimit # 0 /\ c.usageLimit <= 0)

(***************************************************************************)
(* ShoppingCart: [items, appliedCoupons, shippingAddress, shippingCost];    *)
(* items is the list of CartItems in insertion order, appliedCoupons the   *)
(* list of references to coupons (their codes).  The id of a cart is its   *)
(* key in `carts`.  P is the product table, K the coupon table, t the      *)
(* clock read by Coupon.isValid.                                           *)
(***************************************************************************)
\* shippingAddress "null" stands for null, the address of a cart that was given none
NewShoppingCart ==
    [items |-> <<>>, appliedCoupons |-> <<>>, shippingAddress |-> "null",
     shippingCost |-> 0]

\* Array.prototype.find: index of the first item of product pid, 0 if none
FindItem(items, pid) ==
    IF \E i \in 1..Len(items) : items[i].product = pid
    THEN CHOOSE i \in 1..Len(items) :
            /\ items[i].product = pid
            /\ \A j \in 1..(i - 1) : items[j].product # pid
    ELSE 0

RECURSIVE FilterOut(_, _)
\* Array.prototype.filter(item => item.product.id !== pid)
FilterOut(items, pid) ==
    IF items = <<>> THEN <<>>
    ELSE IF Head(items).product = pid THEN FilterOut(Tail(items), pid)
    ELSE <<Head(items)>> \o FilterOut(Tail(items), pid)

RECURSIVE FilterOutCode(_, _)
\* Array.prototype.filter(c => c.code !== code)
FilterOutCode(applied, code) ==
    IF applied = <<>> THEN <<>>
    ELSE IF Head(applied) = code THEN FilterOutCode(Tail(applied), code)
    ELSE <<Head(applied)>> \o FilterOutCode(Tail(applied), code)

\* addProduct that never looks for an existing item
addProduct_AlwaysAppend(cart, P, pid, quantity) ==
    IF quantity <= 0 THEN [cart |-> cart, ok |-> FALSE]
    ELSE IF ~isAvailable(P[pid], quantity) THEN [cart |-> cart, ok |-> FALSE]
    ELSE [cart |-> [cart EXCEPT !.items = Append(cart.items, NewCartItem(pid, quantity))],
          ok |-> TRUE]

\* addProduct that replaces the quantity of an existing item instead of adding to it
addProduct_Replace(cart, P, pid, quantity) ==
    IF quantity <= 0 THEN [cart |-> cart, ok |-> FALSE]
    ELSE IF ~isAvailable(P[pid], quantity) THEN [cart |-> cart, ok |-> FALSE]
    ELSE LET i == FindItem(cart.items, pid) IN
         IF i # 0
         THEN [cart |-> [cart EXCEPT !.items[i] =
                           Item_updateQuantity(P, cart.items[i], quantity).item],
               ok |-> TRUE]
         ELSE [cart |-> [cart EXCEPT !.items = Append(cart.items, NewCartItem(pid, quantity))],
               ok |-> TRUE]

\* addProduct without the test of the combined quantity against the stock
addProduct_NoCombinedCheck(cart, P, pid, quantity) ==
    IF quantity <= 0 THEN [cart |-> cart, ok |-> FALSE]
    ELSE IF ~isAvailable(P[pid], quantity) THEN [cart |-> cart, ok |-> FALSE]
    ELSE LET i == FindItem(cart.items, pid) IN
         IF i # 0
         THEN [cart |-> [cart EXCEPT !.items[i] =
                           Item_updateQuantity(P, cart.items[i],
                                               cart.items[i].quantity + quantity).item],
               ok |-> TRUE]
         ELSE [cart |-> [cart EXCEPT !.items = Append(cart.items, NewCartItem(pid, quantity))],
               ok |-> TRUE]

addProduct(cart, P, pid, quantity) ==
    IF quantity <= 0 THEN [cart |-> cart, ok |-> FALSE]
    ELSE IF ~isAvailable(P[pid], quantity) THEN [cart |-> cart, ok |-> FALSE]
    ELSE LET i == FindItem(cart.items, pid) IN
         IF i # 0
         THEN LET newQuantity == cart.items[i].quantity + quantity IN
              IF isAvailable(P[pid], newQuantity)
              THEN [cart |-> [cart EXCEPT !.items[i] =
                                Item_updateQuantity(P, cart.items[i], newQuantity).item],
                    ok |-> TRUE]
              ELSE [cart |-> cart, ok |-> FALSE]
         ELSE LET newItem == NewCartItem(pid, quantity) IN
              IF Item_validate(P, newItem)
              THEN [cart |-> [cart EXCEPT !.items = Append(cart.items, newItem)],
                    ok |-> TRUE]
              ELSE [cart |-> cart, ok |-> FALSE]

removeProduct(cart, pid) ==
    LET kept == FilterOut(cart.items, pid) IN
    IF Len(kept) < Len(cart.items)
    THEN [cart |-> [cart EXCEPT !.items = kept], ok |-> TRUE]
    ELSE [cart |-> [cart EXCEPT !.items = kept], ok |-> FALSE]

\* updateProductQuantity that refuses a quantity of 0 or below instead of removing
updateProductQuantity_KeepOnZero(cart, P, pid, newQuantity) ==
    IF newQuantity <= 0 THEN [cart |-> cart, ok |-> FALSE]
    ELSE LET i == FindItem(cart.items, pid) IN
         IF i # 0
         THEN LET r == Item_updateQuantity(P, cart.items[i], newQuantity) IN
              [cart |-> [cart EXCEPT !.items[i] = r.item], ok |-> r.ok]
         ELSE [cart |-> cart, ok |-> FALSE]

updateProductQuantity(cart, P, pid, newQuantity) ==
    IF newQuantity <= 0 THEN removeProduct(cart, pid)
    ELSE LET i == FindItem(cart.items, pid) IN
         IF i # 0
         THEN LET r == Item_updateQuantity(P, cart.items[i], newQuantity) IN
              [cart |-> [cart EXCEPT !.items[i] = r.item], ok |-> r.ok]
         ELSE [cart |-> cart, ok |-> FALSE]

\* clear that also forgets the shipping cost
clear_ResetShipping(cart) ==
    [cart EXCEPT !.items = <<>>, !.appliedCoupons = <<>>, !.shippingCost = 0]

clear(cart) == [cart EXCEPT !.items = <<>>, !.appliedCoupons = <<>>]

isEmpty(cart) == Len(cart.items) = 0

getTotalItems(cart) == SeqSum([i \in 1..Len(cart.items) |-> cart.items[i].quantity])

getSubtotal(cart, P) ==
    SeqSum([i \in 1..Len(cart.items) |-> Item_getSubtotal(P, cart.items[i])])

getOriginalSubtotal(cart, P) ==
    SeqSum([i \in 1..Len(cart.items) |-> Item_getOriginalSubtotal(P, cart.items[i])])

getProductDiscounts(cart, P) ==
    SeqSum([i \in 1..Len(cart.items) |-> Item_getTotalDiscount(P, cart.items[i])])

\* applyCoupon without the test of the subtotal against the minimum amount
applyCoupon_NoMinimum(cart, P, K, t, code) ==
    IF ~isValid(K[code], t) THEN [cart |-> cart, ok |-> FALSE]
    ELSE IF \E i \in 1..Len(cart.appliedCoupons) : cart.appliedCoupons[i] = code
    THEN [cart |-> cart, ok |-> FALSE]
    ELSE [cart |-> [cart EXCEPT !.appliedCoupons = Append(cart.appliedCoupons, code)],
          ok |-> TRUE]

\* applyCoupon without the test for a coupon of the same code
applyCoupon_AllowDuplicate(cart, P, K, t, code) ==
    IF ~isValid(K[code], t) THEN [cart |-> cart, ok |-> FALSE]
    ELSE IF K[code].minimumAmount # 0 /\ getSubtotal(cart, P) < K[code].minimumAmount
    THEN [cart |-> cart, ok |-> FALSE]
    ELSE [cart |-> [cart EXCEPT !.appliedCoupons = Append(cart.appliedCoupons, code)],
          ok |-> TRUE]

applyCoupon(cart, P, K, t, code) ==
    IF ~isValid(K[code], t) THEN [cart |-> cart, ok |-> FALSE]
    ELSE IF \E i \in 1..Len(cart.appliedCoupons) : cart.appliedCoupons[i] = code
    THEN [cart |-> cart, ok |-> FALSE]
    ELSE IF K[code].minimumAmount # 0 /\ getSubtotal(cart, P) < K[code].minimumAmount
    THEN [cart |-> cart, ok |-> FALSE]
    ELSE [cart |-> [cart EXCEPT !.appliedCoupons = Append(cart.appliedCoupons, code)],
          ok |-> TRUE]

removeCoupon(cart, code) ==
    LET kept == FilterOutCode(cart.appliedCoupons, code) IN
    [cart |-> [cart EXCEPT !.appliedCoupons = kept],
     ok |-> Len(kept) < Len(cart.appliedCoupons)]

RECURSIVE Stacked(_, _, _, _)
\* coupons applied one after the other, each to what the ones before left
Stacked(applied, K, t, base) ==
    IF applied = <<>> THEN 0
    ELSE LET d == calculateDiscount(K[Head(applied)], t, base) IN
         d + Stacked(Tail(applied), K, t, base - d)

getCouponDiscounts_Stacked(cart, P, K, t) ==
    Stacked(cart.appliedCoupons, K, t, getSubtotal(cart, P))

getCouponDiscounts(cart, P, K, t) ==
    LET subtotal == getSubtotal(cart, P) IN
    SeqSum([i \in 1..Len(cart.appliedCoupons) |->
              calculateDiscount(K[cart.appliedCoupons[i]], t, subtotal)])

setShippingAddress(cart, address) == [cart EXCEPT !.shippingAddress = address]

setShippingCost(cart, cost) == [cart EXCEPT !.shippingCost = Max(0, cost)]

\* getTotal without the floor at 0
getTotal_Unclamped(cart, P, K, t) ==
    getSubtotal(cart, P) - getCouponDiscounts(cart, P, K, t) + cart.shippingCost

getTotal(cart, P, K, t) ==
    LET subtotal == getSubtotal(cart, P)
        couponDiscounts == getCouponDiscounts(cart, P, K, t)
        total == subtotal - couponDiscounts + cart.shippingCost
    IN Max(0, total)

getFinancialSummary(cart, P, K, t) ==
    [originalSubtotal |-> getOriginalSubtotal(cart, P),
     productDiscounts |-> getProductDiscounts(cart, P),
     subtotal |-> getSubtotal(cart, P),
     couponDiscounts |-> getCouponDiscounts(cart, P, K, t),
     shippingCost |-> cart.shippingCost,
     total |-> getTotal(cart, P, K, t),
     totalSavings |-> getProductDiscounts(cart, P) + getCouponDiscounts(cart, P, K, t)]

\* validate() that does not look at the applied coupons
Cart_validate_IgnoringCoupons(cart, P, K, t) ==
    /\ ~isEmpty(cart)
    /\ \A i \in 1..Len(cart.items) : Item_validate(P, cart.items[i])

\* ShoppingCart.validate().isValid
Cart_validate(cart, P, K, t) ==
    /\ ~isEmpty(cart)
    /\ \A i \in 1..Len(cart.items) : Item_validate(P, cart.items[i])
    /\ \A i \in 1..Len(cart.appliedCoupons) : isValid(K[cart.appliedCoupons[i]], t)

(***************************************************************************)
(* DiscountService                                                         *)
(***************************************************************************)
\* DiscountService.validateCoupon; a rejection carries no discount
validateCoupon(K, t, code, amount) ==
    IF code \notin DOMAIN K
    THEN [isValid |-> FALSE, discount |-> 0, finalAmount |-> amount]
    ELSE IF ~isValid(K[code], t)
    THEN [isValid |-> FALSE, discount |-> 0, finalAmount |-> amount]
    ELSE IF amount < K[code].minimumAmount
    THEN [isValid |-> FALSE, discount |-> 0, finalAmount |-> amount]
    ELSE LET discount == calculateDiscount(K[code], t, amount) IN
         [isValid |-> TRUE, discount |-> discount,
          finalAmount |-> Max(0, amount - discount)]

AllowedCouponFields ==
    {"type", "value", "minimumAmount", "expiryDate", "usageLimit", "isActive"}

\* DiscountService.updateCoupon: the fields are assigned first and validate()
\* runs on the coupon so changed; a failure throws and nothing is assigned back
updateCoupon(c, updates) ==
    LET changed == [f \in DOMAIN c |->
                      IF f \in (DOMAIN updates) \cap AllowedCouponFields
                      THEN updates[f] ELSE c[f]]
    IN [coupon |-> changed,
        result |-> IF Coupon_validate(changed) THEN "true" ELSE "throw"]

(***************************************************************************)
(* ProductService and CartService.checkout                                 *)
(***************************************************************************)
\* ProductService.updateProduct: product.update(updates) first, validate() on
\* the product so changed next; a failure throws and nothing is assigned back
ProductService_updateProduct(P, cat, pid, updates) ==
    IF pid \notin cat
    THEN [products |-> P, result |-> "throw"]
    ELSE LET changed == Product_update(P[pid], updates) IN
         [products |-> [P EXCEPT ![pid] = changed],
          result |-> IF Product_validate(changed) THEN "true" ELSE "throw"]

\* ProductService.reduceStock: throws when the id is not in the catalog
ProductService_reduceStock(P, cat, pid, quantity) ==
    IF pid \notin cat
    THEN [products |-> P, result |-> "throw"]
    ELSE LET r == Product_reduceStock(P[pid], quantity) IN
         [products |-> [P EXCEPT ![pid] = r.product],
          result |-> IF r.ok THEN "true" ELSE "false"]

\* ProductService.removeProduct: Map.delete, true when the id was held
ProductService_removeProduct(cat, pid) ==
    [catalog |-> cat \ {pid}, ok |-> pid \in cat]

\* CartService.addProductToCart: throws on an unknown cart, an unknown product
\* and a quantity above the stock; otherwise what cart.addProduct returns
CartService_addProductToCart(C, P, cat, cid, pid, quantity) ==
    IF cid \notin DOMAIN C THEN [carts |-> C, result |-> "throw"]
    ELSE IF pid \notin cat THEN [carts |-> C, result |-> "throw"]
    ELSE IF ~isAvailable(P[pid], quantity) THEN [carts |-> C, result |-> "throw"]
    ELSE LET r == addProduct(C[cid], P, pid, quantity) IN
         [carts |-> [C EXCEPT ![cid] = r.cart],
          result |-> IF r.ok THEN "true" ELSE "false"]

\* CartService.updateProductQuantity: throws on an unknown cart, an unknown
\* product and a positive quantity above the stock; otherwise what
\* cart.updateProductQuantity returns
CartService_updateProductQuantity(C, P, cat, cid, pid, newQuantity) ==
    IF cid \notin DOMAIN C THEN [carts |-> C, result |-> "throw"]
    ELSE IF pid \notin cat THEN [carts |-> C, result |-> "throw"]
    ELSE IF newQuantity > 0 /\ ~isAvailable(P[pid], newQuantity)
    THEN [carts |-> C, result |-> "throw"]
    ELSE LET r == updateProductQuantity(C[cid], P, pid, newQuantity) IN
         [carts |-> [C EXCEPT ![cid] = r.cart],
          result |-> IF r.ok THEN "true" ELSE "false"]

RECURSIVE ReduceAll_Rollback(_, _, _)
\* the loop of checkout, giving back the stock it took when a reduction fails
ReduceAll_Rollback(P, cat, items) ==
    IF items = <<>> THEN [products |-> P, ok |-> TRUE]
    ELSE LET r == ProductService_reduceStock(P, cat, Head(items).product,
                                             Head(items).quantity) IN
         IF r.result # "true" THEN [products |-> P, ok |-> FALSE]
         ELSE LET rest == ReduceAll_Rollback(r.products, cat, Tail(items)) IN
              IF rest.ok THEN rest ELSE [products |-> P, ok |-> FALSE]

RECURSIVE ReduceAll(_, _, _)
\* the loop of checkout over cart.items: it stops at the first reduction that
\* throws or returns false, keeping the reductions already made
ReduceAll(P, cat, items) ==
    IF items = <<>> THEN [products |-> P, ok |-> TRUE]
    ELSE LET r == ProductService_reduceStock(P, cat, Head(items).product,
                                             Head(items).quantity) IN
         IF r.result # "true" THEN [products |-> r.products, ok |-> FALSE]
         ELSE ReduceAll(r.products, cat, Tail(items))

\* the order record built by checkout from the cart as it is after the loop
OrderSummary(cid, cart, P, K, t) ==
    [orderId |-> <<"ORD-", t>>,
     cartId |-> cid,
     items |-> [i \in 1..Len(cart.items) |-> Item_toJSON(P, cart.items[i])],
     financialSummary |-> getFinancialSummary(cart, P, K, t),
     shippingAddress |-> cart.shippingAddress,
     appliedCoupons |-> cart.appliedCoupons,
     status |-> "confirmed"]

\* CartService.checkout: [carts, products, result, order]
checkout(C, P, cat, K, t, cid) ==
    IF cid \notin DOMAIN C
    THEN [carts |-> C, products |-> P, result |-> "throw", order |-> <<>>]
    ELSE IF ~Cart_validate(C[cid], P, K, t)
    THEN [carts |-> C, products |-> P, result |-> "throw", order |-> <<>>]
    ELSE LET r == ReduceAll(P, cat, C[cid].items) IN
         IF ~r.ok
         THEN [carts |-> C, products |-> r.products, result |-> "throw", order |-> <<>>]
         ELSE [carts |-> [C EXCEPT ![cid] = clear(C[cid])],
               products |-> r.products,
               result |-> "order",
               order |-> <<OrderSummary(cid, C[cid], r.products, K, t)>>]

(***************************************************************************)
(* Persistence.  JSON.stringify calls toJSON on every object it meets, so a *)
(* saved cart holds its coupons as plain data; class "Object" marks a value *)
(* that came back from JSON.parse without a prototype.                      *)
(***************************************************************************)
Coupon_toJSON(code, c) ==
    [code |-> code, type |-> c.type, value |-> c.value,
     minimumAmount |-> c.minimumAmount, expiryDate |-> c.expiryDate,
     usageLimit |-> c.usageLimit, usageCount |-> c.usageCount,
     isActive |-> c.isActive, class |-> "Object"]

ShoppingCart_toJSON(cid, cart, P, K, t) ==
    [id |-> cid,
     items |-> [i \in 1..Len(cart.items) |-> Item_toJSON(P, cart.items[i])],
     appliedCoupons |-> [i \in 1..Len(cart.appliedCoupons) |->
                            Coupon_toJSON(cart.appliedCoupons[i],
                                          K[cart.appliedCoupons[i]])],
     shippingAddress |-> cart.shippingAddress,
     shippingCost |-> cart.shippingCost,
     financialSummary |-> getFinancialSummary(cart, P, K, t),
     totalItems |-> getTotalItems(cart)]

\* ShoppingCart.fromJSON: the items are left for loadCarts to rebuild
ShoppingCart_fromJSON(data) ==
    [items |-> <<>>,
     appliedCoupons |-> data.appliedCoupons,
     shippingAddress |-> data.shippingAddress,
     shippingCost |-> IF data.shippingCost # 0 THEN data.shippingCost ELSE 0]

CartItem_fromJSON(data, pid) == NewCartItem(pid, data.quantity)

saveCarts(C, P, K, t) ==
    [cid \in DOMAIN C |-> ShoppingCart_toJSON(cid, C[cid], P, K, t)]

\* the items loadCarts pushes: those whose product the catalog still has
RECURSIVE LoadItems(_, _)
LoadItems(itemsData, cat) ==
    IF itemsData = <<>> THEN <<>>
    ELSE IF Head(itemsData).product \in cat
         THEN <<CartItem_fromJSON(Head(itemsData), Head(itemsData).product)>>
              \o LoadItems(Tail(itemsData), cat)
         ELSE LoadItems(Tail(itemsData), cat)

loadCarts(file, cat) ==
    [cid \in DOMAIN file |->
        [ShoppingCart_fromJSON(file[cid]) EXCEPT
            !.items = LoadItems(file[cid].items, cat)]]

\* getFinancialSummary of a loaded cart: getCouponDiscounts calls
\* coupon.calculateDiscount on each applied coupon, which a plain object
\* does not have
Loaded_getFinancialSummary(cart, P, K, t) ==
    IF \E i \in 1..Len(cart.appliedCoupons) :
          cart.appliedCoupons[i].class = "Object"
    THEN [threw |-> "TypeError"]
    ELSE getFinancialSummary([cart EXCEPT !.appliedCoupons = <<>>], P, K, t)

(***************************************************************************)
(* ShippingService.  A CEP is the number that parseInt reads from its eight *)
(* digits; weights are in hundredths of a kilogram; amounts in the units   *)
(* of Money; names are written without their accents.                      *)
(***************************************************************************)
Cents(c) == c * (Scale \div 100)

\* shippingRates in insertion order: first and last CEP number, rate, days
shippingRates ==
    << [start |-> 1000,  end |-> 19999, region |-> "Sao Paulo - SP",      rate |-> Cents(1590), days |-> 2],
       [start |-> 20000, end |-> 28999, region |-> "Rio de Janeiro - RJ", rate |-> Cents(1890), days |-> 3],
       [start |-> 30000, end |-> 39999, region |-> "Belo Horizonte - MG", rate |-> Cents(2290), days |-> 4],
       [start |-> 40000, end |-> 48999, region |-> "Salvador - BA",       rate |-> Cents(2890), days |-> 5],
       [start |-> 50000, end |-> 56999, region |-> "Recife - PE",         rate |-> Cents(3290), days |-> 6],
       [start |-> 60000, end |-> 63999, region |-> "Fortaleza - CE",      rate |-> Cents(3590), days |-> 7],
       [start |-> 70000, end |-> 72999, region |-> "Brasilia - DF",       rate |-> Cents(2590), days |-> 4],
       [start |-> 80000, end |-> 87999, region |-> "Curitiba - PR",       rate |-> Cents(2090), days |-> 3],
       [start |-> 90000, end |-> 99999, region |-> "Porto Alegre - RS",   rate |-> Cents(2490), days |-> 4],
       [start |-> 65000, end |-> 65999, region |-> "Palmas - TO",         rate |-> Cents(3890), days |-> 8],
       [start |-> 78000, end |-> 78899, region |-> "Cuiaba - MT",         rate |-> Cents(4290), days |-> 8],
       [start |-> 69000, end |-> 69920, region |-> "Manaus - AM",         rate |-> Cents(5590), days |-> 10],
       [start |-> 68000, end |-> 68914, region |-> "Santarem - PA",       rate |-> Cents(4890), days |-> 9] >>

defaultRate == [region |-> "Outras localidades", rate |-> Cents(3590), days |-> 7]

\* the first range that holds the CEP number, the default rate if none does
findShippingRate(cepNumber) ==
    LET hits == {k \in 1..Len(shippingRates) :
                    /\ cepNumber >= shippingRates[k].start
                    /\ cepNumber <= shippingRates[k].end}
    IN IF hits = {} THEN defaultRate
       ELSE LET k == CHOOSE k \in hits : \A j \in hits : k <= j
            IN [region |-> shippingRates[k].region, rate |-> shippingRates[k].rate,
                days |-> shippingRates[k].days]

\* categoryWeights[category] || 0.5
categoryWeight(category) ==
    CASE category = "Eletronicos" -> 80
      [] category = "Roupas" -> 30
      [] category = "Calcados" -> 60
      [] category = "Casa" -> 120
      [] category = "Decoracao" -> 50
      [] category = "Eletrodomesticos" -> 250
      [] category = "Beleza" -> 20
      [] category = "Perfumaria" -> 30
      [] category = "Cuidados" -> 25
      [] category = "Livros" -> 40
      [] category = "Papelaria" -> 10
      [] category = "Esportes" -> 100
      [] category = "Fitness" -> 80
      [] category = "Acessorios" -> 20
      [] OTHER -> 50

calculateWeight(P, items) ==
    Max(10, SeqSum([i \in 1..Len(items) |->
                      categoryWeight(P[items[i].product].category) * items[i].quantity]))

freeShippingThreshold == Money(150)

\* calculateShipping for a CEP that validateCEP accepts; R$ 3,50 per
\* kilogram above the first
calculateShipping(cepNumber, weight, value) ==
    LET rateInfo == findShippingRate(cepNumber)
        byWeight == IF weight > 100
                    THEN rateInfo.rate + ((weight - 100) * Cents(350)) \div 100
                    ELSE rateInfo.rate
        isFreeShipping == value >= freeShippingThreshold
    IN [cep |-> cepNumber,
        region |-> rateInfo.region,
        cost |-> IF isFreeShipping THEN 0 ELSE byWeight,
        originalCost |-> rateInfo.rate,
        deliveryDays |-> rateInfo.days,
        weight |-> weight,
        isFreeShipping |-> isFreeShipping]

\* the fields of an option with some of them replaced, and type and name added
ShippingOption(base, type, name, cost, deliveryDays) ==
    [cep |-> base.cep, region |-> base.region, cost |-> cost,
     originalCost |-> base.originalCost, deliveryDays |-> deliveryDays,
     weight |-> base.weight, isFreeShipping |-> base.isFreeShipping,
     type |-> type, name |-> name]

getShippingOptions(cepNumber, weight, value) ==
    LET standardShipping == calculateShipping(cepNumber, weight, value)
        expressCost == IF standardShipping.isFreeShipping THEN Cents(1590)
                       ELSE standardShipping.cost + Cents(1590)
        economicCost == IF standardShipping.isFreeShipping THEN 0
                        ELSE Max(Cents(890), standardShipping.cost - Cents(500))
    IN << ShippingOption(standardShipping, "economic", "Economico", economicCost,
                         standardShipping.deliveryDays + 3),
          ShippingOption(standardShipping, "standard", "Padrao", standardShipping.cost,
                         standardShipping.deliveryDays),
          ShippingOption(standardShipping, "express", "Expresso", expressCost,
                         Max(1, standardShipping.deliveryDays - 2)) >>

\* what the option list and the selection prompt show as the value of an option
ShownCost(option) ==
    IF option.isFreeShipping
    THEN [label |-> "GRATIS", amount |-> 0]
    ELSE [label |-> "R$", amount |-> option.cost]

(***************************************************************************)
(* State                                                                   *)
(***************************************************************************)
\* ret: the operation last called, the cart it was called on, its product id or
\* coupon code, its number argument, what it returned ("true", "false", "void",
\* "throw", "order" or "number"), the number returned and the order returned
Ret(op, cart, arg, n, result) ==
    [op |-> op, cart |-> cart, arg |-> arg, n |-> n, result |-> result,
     value |-> 0, order |-> <<>>]

Bool(b) == IF b THEN "true" ELSE "false"

\* the invocations of the asynchronous CartService.checkout that a behaviour
\* can make step by step, and one that has not been made yet
CallIds == {"first", "second"}

IdleCall == [pc |-> "idle", cart |-> UnknownId, items |-> <<>>, i |-> 0, order |-> <<>>]

InitProducts ==
    [pid \in ProductIds |->
        IF pid = "p1"
        THEN NewProduct("Produto 1", Money(100), "Cat1", MaxStock, 0, 10)
        ELSE NewProduct("Produto 2", Money(10), "Cat2", MaxStock, 0, 0)]

InitCoupons ==
    [code \in CouponCodes |->
        IF code = "PCT10"
        THEN NewCoupon("percentage", 10, Money(15), 1, 2)
        ELSE NewCoupon("fixed", Money(20), 0, 0, 2)]

Init ==
    /\ products = InitProducts
    /\ catalog = ProductIds
    /\ coupons = InitCoupons
    /\ carts = [cid \in CartIds |-> NewShoppingCart]
    /\ now = 1
    /\ ret = Ret("new", UnknownId, UnknownId, 0, "void")
    /\ calls = [c \in CallIds |-> IdleCall]

(***************************************************************************)
(* ShoppingCart operations, called on the cart object                      *)
(***************************************************************************)
AddProduct(cid, pid, n) ==
    LET r == addProduct(carts[cid], products, pid, n) IN
    /\ carts' = [carts EXCEPT ![cid] = r.cart]
    /\ ret' = Ret("addProduct", cid, pid, n, Bool(r.ok))
    /\ UNCHANGED <<calls, products, catalog, coupons, now>>

RemoveProduct(cid, pid) ==
    LET r == removeProduct(carts[cid], pid) IN
    /\ carts' = [carts EXCEPT ![cid] = r.cart]
    /\ ret' = Ret("removeProduct", cid, pid, 0, Bool(r.ok))
    /\ UNCHANGED <<calls, products, catalog, coupons, now>>

UpdateProductQuantity(cid, pid, n) ==
    LET r == updateProductQuantity(carts[cid], products, pid, n) IN
    /\ carts' = [carts EXCEPT ![cid] = r.cart]
    /\ ret' = Ret("updateProductQuantity", cid, pid, n, Bool(r.ok))
    /\ UNCHANGED <<calls, products, catalog, coupons, now>>

Clear(cid) ==
    /\ carts' = [carts EXCEPT ![cid] = clear(carts[cid])]
    /\ ret' = Ret("clear", cid, UnknownId, 0, "void")
    /\ UNCHANGED <<calls, products, catalog, coupons, now>>

ApplyCoupon(cid, code) ==
    LET r == applyCoupon(carts[cid], products, coupons, now, code) IN
    /\ carts' = [carts EXCEPT ![cid] = r.cart]
    /\ ret' = Ret("applyCoupon", cid, code, 0, Bool(r.ok))
    /\ UNCHANGED <<calls, products, catalog, coupons, now>>

RemoveCoupon(cid, code) ==
    LET r == removeCoupon(carts[cid], code) IN
    /\ carts' = [carts EXCEPT ![cid] = r.cart]
    /\ ret' = Ret("removeCoupon", cid, code, 0, Bool(r.ok))
    /\ UNCHANGED <<calls, products, catalog, coupons, now>>

\* CartService.setShippingAddress
SetShippingAddress(cid, address) ==
    /\ carts' = [carts EXCEPT ![cid] = setShippingAddress(carts[cid], address)]
    /\ ret' = Ret("setShippingAddress", cid, address, 0, "void")
    /\ UNCHANGED <<calls, products, catalog, coupons, now>>

SetShippingCost(cid, cost) ==
    /\ carts' = [carts EXCEPT ![cid] = setShippingCost(carts[cid], cost)]
    /\ ret' = Ret("setShippingCost", cid, UnknownId, cost, "void")
    /\ UNCHANGED <<calls, products, catalog, coupons, now>>

(***************************************************************************)
(* CartItem operations, called on the item that cart.getItem(pid) returns  *)
(***************************************************************************)
SetItem(cid, pid, r, op, n) ==
    LET i == FindItem(carts[cid].items, pid) IN
    /\ carts' = [carts EXCEPT ![cid].items[i] = r.item]
    /\ ret' = Ret(op, cid, pid, n, Bool(r.ok))
    /\ UNCHANGED <<calls, products, catalog, coupons, now>>

ItemUpdateQuantity(cid, pid, n) ==
    LET i == FindItem(carts[cid].items, pid) IN
    /\ i # 0
    /\ SetItem(cid, pid, Item_updateQuantity(products, carts[cid].items[i], n),
               "updateQuantity", n)

ItemIncreaseQuantity(cid, pid, n) ==
    LET i == FindItem(carts[cid].items, pid) IN
    /\ i # 0
    /\ SetItem(cid, pid, Item_increaseQuantity(products, carts[cid].items[i], n),
               "increaseQuantity", n)

ItemDecreaseQuantity(cid, pid, n) ==
    LET i == FindItem(carts[cid].items, pid) IN
    /\ i # 0
    /\ SetItem(cid, pid, Item_decreaseQuantity(products, carts[cid].items[i], n),
               "decreaseQuantity", n)

\* item.combineWith(new CartItem(other, n))
ItemCombineWith(cid, pid, other, n) ==
    LET i == FindItem(carts[cid].items, pid) IN
    /\ i # 0
    /\ SetItem(cid, pid,
               Item_combineWith(products, carts[cid].items[i], NewCartItem(other, n)),
               "combineWith", n)

(***************************************************************************)
(* Service operations                                                      *)
(***************************************************************************)
Checkout(cid) ==
    LET r == checkout(carts, products, catalog, coupons, now, cid) IN
    /\ carts' = r.carts
    /\ products' = r.products
    /\ ret' = [Ret("checkout", cid, UnknownId, 0, r.result) EXCEPT !.order = r.order]
    /\ UNCHANGED <<calls, catalog, coupons, now>>

ReduceStock(pid, n) ==
    LET r == ProductService_reduceStock(products, catalog, pid, n) IN
    /\ r.products[pid].stock <= MaxStock
    /\ products' = r.products
    /\ ret' = Ret("reduceStock", UnknownId, pid, n, r.result)
    /\ UNCHANGED <<calls, catalog, coupons, carts, now>>

IncreaseStock(pid, n) ==
    /\ pid \in catalog
    /\ products[pid].stock + n <= MaxStock
    /\ products' = [products EXCEPT ![pid] = Product_increaseStock(products[pid], n)]
    /\ ret' = Ret("increaseStock", UnknownId, pid, n, "void")
    /\ UNCHANGED <<calls, catalog, coupons, carts, now>>

\* CartService.addProductToCart
AddProductToCart(cid, pid, n) ==
    LET r == CartService_addProductToCart(carts, products, catalog, cid, pid, n) IN
    /\ carts' = r.carts
    /\ ret' = Ret("addProductToCart", cid, pid, n, r.result)
    /\ UNCHANGED <<calls, products, catalog, coupons, now>>

\* CartService.updateProductQuantity
ServiceUpdateProductQuantity(cid, pid, n) ==
    LET r == CartService_updateProductQuantity(carts, products, catalog, cid, pid, n) IN
    /\ carts' = r.carts
    /\ ret' = Ret("CartService.updateProductQuantity", cid, pid, n, r.result)
    /\ UNCHANGED <<calls, products, catalog, coupons, now>>

\* ProductService.updateProduct
UpdateProduct(pid, updates) ==
    LET r == ProductService_updateProduct(products, catalog, pid, updates) IN
    /\ products' = r.products
    /\ ret' = Ret("updateProduct", UnknownId, pid, 0, r.result)
    /\ UNCHANGED <<calls, catalog, coupons, carts, now>>

\* ProductService.removeProduct
CatalogRemoveProduct(pid) ==
    LET r == ProductService_removeProduct(catalog, pid) IN
    /\ catalog' = r.catalog
    /\ ret' = Ret("ProductService.removeProduct", UnknownId, pid, 0, Bool(r.ok))
    /\ UNCHANGED <<calls, products, coupons, carts, now>>

\* CartService.applyCouponToCart: cart.applyCoupon, then coupon.apply()
ApplyCouponToCart(cid, code) ==
    LET r == applyCoupon(carts[cid], products, coupons, now, code) IN
    /\ carts' = [carts EXCEPT ![cid] = r.cart]
    /\ coupons' = IF r.ok
                  THEN [coupons EXCEPT ![code] = Coupon_apply(coupons[code], now).coupon]
                  ELSE coupons
    /\ ret' = Ret("applyCouponToCart", cid, code, 0, Bool(r.ok))
    /\ UNCHANGED <<calls, products, catalog, now>>

DeactivateCoupon(code) ==
    /\ coupons' = [coupons EXCEPT ![code] = Coupon_deactivate(coupons[code])]
    /\ ret' = Ret("deactivateCoupon", UnknownId, code, 0, "true")
    /\ UNCHANGED <<calls, products, catalog, carts, now>>

ActivateCoupon(code) ==
    /\ coupons' = [coupons EXCEPT ![code] = Coupon_activate(coupons[code])]
    /\ ret' = Ret("activateCoupon", UnknownId, code, 0, "true")
    /\ UNCHANGED <<calls, products, catalog, carts, now>>

\* coupon.calculateDiscount(amount)
CalculateDiscount(code, amount) ==
    /\ ret' = [Ret("calculateDiscount", UnknownId, code, amount, "number")
                 EXCEPT !.value = calculateDiscount(coupons[code], now, amount)]
    /\ UNCHANGED <<calls, products, catalog, coupons, carts, now>>

\* DiscountService.applyCoupon
DiscountService_applyCoupon(code) ==
    LET r == Coupon_apply(coupons[code], now) IN
    /\ r.coupon.usageCount <= MaxUsage
    /\ coupons' = [coupons EXCEPT ![code] = r.coupon]
    /\ ret' = Ret("DiscountService.applyCoupon", UnknownId, code, 0, Bool(r.ok))
    /\ UNCHANGED <<calls, products, catalog, carts, now>>

\* DiscountService.revertCoupon
DiscountService_revertCoupon(code) ==
    /\ coupons' = [coupons EXCEPT ![code] = Coupon_revert(coupons[code])]
    /\ ret' = Ret("DiscountService.revertCoupon", UnknownId, code, 0, "void")
    /\ UNCHANGED <<calls, products, catalog, carts, now>>

\* DiscountService.updateCoupon
UpdateCoupon(code, updates) ==
    LET r == updateCoupon(coupons[code], updates) IN
    /\ coupons' = [coupons EXCEPT ![code] = r.coupon]
    /\ ret' = Ret("updateCoupon", UnknownId, code, 0, r.result)
    /\ UNCHANGED <<calls, products, catalog, carts, now>>

\* time passes between two calls; once every expiry date has passed, later
\* clock values read the same to the program
Tick ==
    /\ \E code \in CouponCodes : coupons[code].expiryDate >= now
    /\ now' = now + 1
    /\ ret' = Ret("tick", UnknownId, UnknownId, 0, "void")
    /\ UNCHANGED <<calls, products, catalog, coupons, carts>>

ShippingCosts == {0 - Money(5), Money(15)}

(***************************************************************************)
(* Spec: the checkout pipeline, with items, coupons, shipping and clock.    *)
(* Units are added to the cart and taken from the stock one at a time,     *)
(* which reaches every quantity and every stock level.                     *)
(***************************************************************************)
Next ==
    \/ \E cid \in CartIds, pid \in ProductIds, n \in {1} : AddProduct(cid, pid, n)
    \/ \E cid \in CartIds, code \in CouponCodes : ApplyCouponToCart(cid, code)
    \/ \E cid \in CartIds, cost \in ShippingCosts : SetShippingCost(cid, cost)
    \/ \E cid \in CartIds \cup {UnknownId} : Checkout(cid)
    \/ \E pid \in ProductIds, n \in {1} : ReduceStock(pid, n)
    \/ Tick

Spec == Init /\ [][Next]_vars

(***************************************************************************)
(* SpecCart: the line items of a cart against the stock of the catalog     *)
(***************************************************************************)
NextCart ==
    \/ \E cid \in CartIds, pid \in ProductIds, n \in Quantities : AddProduct(cid, pid, n)
    \/ \E cid \in CartIds, pid \in ProductIds : RemoveProduct(cid, pid)
    \/ \E cid \in CartIds, pid \in ProductIds, n \in Quantities :
          UpdateProductQuantity(cid, pid, n)
    \/ \E cid \in CartIds : Clear(cid)
    \/ \E cid \in CartIds, pid \in ProductIds, n \in Quantities :
          ItemUpdateQuantity(cid, pid, n)
    \/ \E cid \in CartIds, pid \in ProductIds, n \in Quantities :
          ItemIncreaseQuantity(cid, pid, n)
    \/ \E cid \in CartIds, pid \in ProductIds, n \in Quantities :
          ItemDecreaseQuantity(cid, pid, n)
    \/ \E cid \in CartIds, pid \in ProductIds, other \in ProductIds, n \in 1..MaxQty :
          ItemCombineWith(cid, pid, other, n)
    \/ \E cid \in CartIds \cup {UnknownId} : Checkout(cid)
    \/ \E pid \in ProductIds, n \in Quantities : ReduceStock(pid, n)
    \/ \E pid \in ProductIds, n \in 1..MaxQty : IncreaseStock(pid, n)

SpecCart == Init /\ [][NextCart]_vars

(***************************************************************************)
(* SpecCoupon: the coupons of the store, their use and their discounts     *)
(***************************************************************************)
Amounts == {0, Money(10), Money(30), Money(100)}

CouponUpdates == {"value" :> 150, "usageLimit" :> 1, "usageLimit" :> 0}

NextCoupon ==
    \/ \E code \in CouponCodes, amount \in Amounts : CalculateDiscount(code, amount)
    \/ \E code \in CouponCodes : DiscountService_applyCoupon(code)
    \/ \E code \in CouponCodes : DiscountService_revertCoupon(code)
    \/ \E code \in CouponCodes, updates \in CouponUpdates : UpdateCoupon(code, updates)
    \/ \E code \in CouponCodes : DeactivateCoupon(code)
    \/ \E code \in CouponCodes : ActivateCoupon(code)
    \/ Tick

SpecCoupon == Init /\ [][NextCoupon]_vars

(***************************************************************************)
(* SpecApply: the coupons applied to a cart and the count of their uses     *)
(***************************************************************************)
NextApply ==
    \/ \E cid \in CartIds, pid \in ProductIds, n \in {1} : AddProduct(cid, pid, n)
    \/ \E cid \in CartIds, code \in CouponCodes : ApplyCoupon(cid, code)
    \/ \E cid \in CartIds, code \in CouponCodes : ApplyCouponToCart(cid, code)
    \/ \E cid \in CartIds, code \in CouponCodes : RemoveCoupon(cid, code)
    \/ \E cid \in CartIds : Clear(cid)
    \/ \E cid \in CartIds : Checkout(cid)
    \/ \E code \in CouponCodes : DiscountService_applyCoupon(code)
    \/ \E code \in CouponCodes : DiscountService_revertCoupon(code)
    \/ Tick

SpecApply == Init /\ [][NextApply]_vars

(***************************************************************************)
(* SpecClear: what a cart keeps when it is emptied                          *)
(***************************************************************************)
Addresses == {"Rua A, 1", "Rua B, 2"}

NextClear ==
    \/ \E cid \in CartIds, pid \in ProductIds, n \in {1} : AddProduct(cid, pid, n)
    \/ \E cid \in CartIds, code \in CouponCodes : ApplyCouponToCart(cid, code)
    \/ \E cid \in CartIds, cost \in ShippingCosts : SetShippingCost(cid, cost)
    \/ \E cid \in CartIds, address \in Addresses : SetShippingAddress(cid, address)
    \/ \E cid \in CartIds : Clear(cid)
    \/ \E cid \in CartIds : Checkout(cid)

SpecClear == Init /\ [][NextClear]_vars

(***************************************************************************)
(* SpecPartial: checkout of a cart whose products leave the catalog         *)
(***************************************************************************)
NextPartial ==
    \/ \E cid \in CartIds, pid \in ProductIds, n \in 1..MaxQty : AddProduct(cid, pid, n)
    \/ \E pid \in ProductIds : CatalogRemoveProduct(pid)
    \/ \E cid \in CartIds : Checkout(cid)

SpecPartial == Init /\ [][NextPartial]_vars

(***************************************************************************)
(* SpecUpdate: updates of the products and of the coupons of the store      *)
(***************************************************************************)
ProductUpdates ==
    {"price" :> 0, "discount" :> 50, "discount" :> (0 - 10), "discount" :> 150,
     "stock" :> (0 - 1)}

NextUpdate ==
    \/ \E pid \in ProductIds, updates \in ProductUpdates : UpdateProduct(pid, updates)
    \/ \E code \in CouponCodes, updates \in CouponUpdates : UpdateCoupon(code, updates)

SpecUpdate == Init /\ [][NextUpdate]_vars

(***************************************************************************)
(* SpecService: the operations of a cart, called on the cart and through    *)
(* CartService                                                             *)
(***************************************************************************)
NextService ==
    \/ \E cid \in CartIds, pid \in ProductIds, n \in Quantities : AddProduct(cid, pid, n)
    \/ \E cid \in CartIds, pid \in ProductIds, n \in Quantities :
          UpdateProductQuantity(cid, pid, n)
    \/ \E cid \in CartIds, code \in CouponCodes : ApplyCoupon(cid, code)
    \/ \E cid \in CartIds \cup {UnknownId}, pid \in ProductIds, n \in Quantities :
          AddProductToCart(cid, pid, n)
    \/ \E cid \in CartIds \cup {UnknownId}, pid \in ProductIds, n \in Quantities :
          ServiceUpdateProductQuantity(cid, pid, n)
    \/ \E cid \in CartIds, code \in CouponCodes : ApplyCouponToCart(cid, code)
    \/ \E cid \in CartIds : Checkout(cid)

SpecService == Init /\ [][NextService]_vars

(***************************************************************************)
(* SpecPersist: carts are filled, then saved and loaded by a CartService   *)
(* that starts over the same file and the same catalog (initialize() is    *)
(* the one caller of loadCarts); ret.value is the carts map it ends with.  *)
(***************************************************************************)
SaveAndLoadCarts ==
    LET file == saveCarts(carts, products, coupons, now)
        loaded == loadCarts(file, catalog)
    IN /\ ret' = [Ret("loadCarts", UnknownId, UnknownId, 0, "void")
                     EXCEPT !.value = loaded]
       /\ UNCHANGED <<calls, products, catalog, coupons, carts, now>>

NextPersist ==
    \/ \E cid \in CartIds, pid \in ProductIds, n \in 1..MaxQty : AddProduct(cid, pid, n)
    \/ \E cid \in CartIds, code \in CouponCodes : ApplyCouponToCart(cid, code)
    \/ \E cid \in CartIds, cost \in ShippingCosts : SetShippingCost(cid, cost)
    \/ SaveAndLoadCarts

SpecPersist == Init /\ [][NextPersist]_vars

(***************************************************************************)
(* CartService.checkout step by step.  The function runs up to an await of *)
(* file output (saveProducts inside reduceStock, saveCarts at the end) and *)
(* resumes when the output is done, so other calls run in between.  The    *)
(* for..of loop walks the array that cart.items referred to when the loop  *)
(* began (clear() assigns a new array), kept in calls[c].items.            *)
(***************************************************************************)
\* from the call to the first await: getCart, validate, first reduceStock
CheckoutStart(c, cid) ==
    /\ calls[c].pc = "idle"
    /\ IF cid \notin DOMAIN carts
       THEN /\ calls' = [calls EXCEPT ![c] = [IdleCall EXCEPT !.pc = "rejected", !.cart = cid]]
            /\ ret' = Ret("checkout", cid, UnknownId, 0, "throw")
            /\ UNCHANGED products
       ELSE IF ~Cart_validate(carts[cid], products, coupons, now)
       THEN /\ calls' = [calls EXCEPT ![c] = [IdleCall EXCEPT !.pc = "rejected", !.cart = cid]]
            /\ ret' = Ret("checkout", cid, UnknownId, 0, "throw")
            /\ UNCHANGED products
       ELSE LET items == carts[cid].items
                r == ProductService_reduceStock(products, catalog,
                                                items[1].product, items[1].quantity)
            IN /\ products' = r.products
               /\ calls' = [calls EXCEPT ![c] =
                     [pc |-> IF r.result = "true" THEN "saveProducts" ELSE "rejected",
                      cart |-> cid, items |-> items, i |-> 1, order |-> <<>>]]
               /\ ret' = Ret("checkout", cid, UnknownId, 0,
                             IF r.result = "true" THEN "pending" ELSE "throw")
    /\ UNCHANGED <<catalog, coupons, carts, now>>

\* saveProducts is done: the next item of the loop, or the order and clear()
CheckoutResume(c) ==
    LET cid == calls[c].cart
        items == calls[c].items
        k == calls[c].i + 1
    IN /\ calls[c].pc = "saveProducts"
       /\ IF k <= Len(items)
          THEN LET r == ProductService_reduceStock(products, catalog,
                                                   items[k].product, items[k].quantity)
               IN /\ products' = r.products
                  /\ calls' = [calls EXCEPT
                        ![c].pc = IF r.result = "true" THEN "saveProducts" ELSE "rejected",
                        ![c].i = k]
                  /\ ret' = Ret("checkout", cid, UnknownId, 0,
                                IF r.result = "true" THEN "pending" ELSE "throw")
                  /\ UNCHANGED carts
          ELSE /\ calls' = [calls EXCEPT
                     ![c].pc = "saveCarts",
                     ![c].order = <<OrderSummary(cid, carts[cid], products, coupons, now)>>]
               /\ carts' = [carts EXCEPT ![cid] = clear(carts[cid])]
               /\ ret' = Ret("checkout", cid, UnknownId, 0, "pending")
               /\ UNCHANGED products
       /\ UNCHANGED <<catalog, coupons, now>>

\* saveCarts is done: the call returns its order
CheckoutReturn(c) ==
    /\ calls[c].pc = "saveCarts"
    /\ calls' = [calls EXCEPT ![c].pc = "fulfilled"]
    /\ ret' = [Ret("checkout", calls[c].cart, UnknownId, 0, "order")
                  EXCEPT !.order = calls[c].order]
    /\ UNCHANGED <<products, catalog, coupons, carts, now>>

(***************************************************************************)
(* SpecRace: a cart is filled, then checkout is called on it twice, the    *)
(* second call at any point of the first.                                  *)
(***************************************************************************)
NextRace ==
    \/ /\ \A c \in CallIds : calls[c].pc = "idle"
       /\ \E cid \in CartIds, pid \in ProductIds, n \in 1..MaxQty : AddProduct(cid, pid, n)
    \/ \E c \in CallIds, cid \in CartIds : CheckoutStart(c, cid)
    \/ \E c \in CallIds : CheckoutResume(c)
    \/ \E c \in CallIds : CheckoutReturn(c)

SpecRace == Init /\ [][NextRace]_vars

(***************************************************************************)
(* SpecCycle: coupons put on a cart through CartService and taken off      *)
(* again, by removeCouponFromCart or by clearCart.                         *)
(***************************************************************************)
\* CartService.removeCouponFromCart: cart.removeCoupon, then saveCarts
RemoveCouponFromCart(cid, code) ==
    LET r == removeCoupon(carts[cid], code) IN
    /\ carts' = [carts EXCEPT ![cid] = r.cart]
    /\ ret' = Ret("removeCouponFromCart", cid, code, 0, Bool(r.ok))
    /\ UNCHANGED <<calls, products, catalog, coupons, now>>

\* CartService.clearCart: cart.clear, then saveCarts
ClearCart(cid) ==
    /\ carts' = [carts EXCEPT ![cid] = clear(carts[cid])]
    /\ ret' = Ret("clearCart", cid, UnknownId, 0, "true")
    /\ UNCHANGED <<calls, products, catalog, coupons, now>>

NextCycle ==
    \/ \E cid \in CartIds, pid \in ProductIds, n \in {1} : AddProduct(cid, pid, n)
    \/ \E cid \in CartIds, code \in CouponCodes : ApplyCouponToCart(cid, code)
    \/ \E cid \in CartIds, code \in CouponCodes : RemoveCouponFromCart(cid, code)
    \/ \E cid \in CartIds : ClearCart(cid)

SpecCycle == Init /\ [][NextCycle]_vars

(***************************************************************************)
(* SpecShipping: a cart is filled, the shipping options for a CEP are      *)
(* listed and one of them (or none, selected = 0) is taken.                *)
(***************************************************************************)
\* "00015-000" (Sao Paulo), "00069-500" (Manaus), "01310-100" (no range)
CEPs == {15000, 69500, 1310100}

\* AppController.calculateShipping with the CEP typed and the option chosen
CalculateShipping(cid, cepNumber, selected) ==
    LET cart == carts[cid]
        weight == calculateWeight(products, cart.items)
        value == getSubtotal(cart, products)
        shippingOptions == getShippingOptions(cepNumber, weight, value)
    IN IF isEmpty(cart)
       THEN /\ ret' = Ret("calculateShipping", cid, UnknownId, 0, "warning")
            /\ UNCHANGED <<calls, products, catalog, coupons, carts, now>>
       ELSE /\ carts' = IF selected # 0
                        THEN [carts EXCEPT ![cid] =
                                 setShippingCost(cart, shippingOptions[selected].cost)]
                        ELSE carts
            /\ ret' = [Ret("calculateShipping", cid, UnknownId, selected, "void")
                          EXCEPT !.value = shippingOptions]
            /\ UNCHANGED <<calls, products, catalog, coupons, now>>

NextShipping ==
    \/ \E cid \in CartIds, pid \in ProductIds, n \in 1..MaxQty : AddProduct(cid, pid, n)
    \/ \E cid \in CartIds, pid \in ProductIds : RemoveProduct(cid, pid)
    \/ \E cid \in CartIds, cepNumber \in CEPs, selected \in 0..3 :
          CalculateShipping(cid, cepNumber, selected)

SpecShipping == Init /\ [][NextShipping]_vars

(***************************************************************************)
(* Properties                                                              *)
(***************************************************************************)
RECURSIVE SumOver(_)
\* the sum of the values of a function with a finite domain
SumOver(f) ==
    IF DOMAIN f = {} THEN 0
    ELSE LET x == CHOOSE x \in DOMAIN f : TRUE IN
         f[x] + SumOver([y \in (DOMAIN f) \ {x} |-> f[y]])

\* the positions of the items of product pid in a cart
Lines(cart, pid) == {i \in 1..Len(cart.items) : cart.items[i].product = pid}

\* the units of product pid that a cart holds
Units(cart, pid) == SumOver([i \in Lines(cart, pid) |-> cart.items[i].quantity])

\* C1: a checkout that succeeds takes from the stock of each ordered product
\* exactly the quantity of its item and from no other product, returns an order
\* that is confirmed, has an order id, and whose lines (product, quantity,
\* subtotal) and financial summary are those of the cart before the call, and
\* leaves the cart without items and without applied coupons.
C1_CheckoutCommits ==
    [][(ret'.op = "checkout" /\ ret'.result = "order") =>
         LET cart == carts[ret'.cart]
             order == ret'.order[1]
         IN /\ Len(ret'.order) = 1
            /\ \A pid \in ProductIds :
                  products'[pid].stock = products[pid].stock - Units(cart, pid)
            /\ order.status = "confirmed"
            /\ order.orderId # <<>>
            /\ Len(order.items) = Len(cart.items)
            /\ \A i \in 1..Len(cart.items) :
                  /\ order.items[i].product = cart.items[i].product
                  /\ order.items[i].quantity = cart.items[i].quantity
                  /\ order.items[i].subtotal = Item_getSubtotal(products, cart.items[i])
            /\ order.financialSummary = getFinancialSummary(cart, products, coupons, now)
            /\ carts'[ret'.cart].items = <<>>
            /\ carts'[ret'.cart].appliedCoupons = <<>>
      ]_vars

\* an order of two lines with a coupon discount has just been returned
C1_Witness ==
    /\ ret.op = "checkout"
    /\ ret.result = "order"
    /\ Len(ret.order[1].items) = 2
    /\ ret.order[1].financialSummary.couponDiscounts > 0
    /\ \E pid \in ProductIds : products[pid].stock < MaxStock - 1

\* C2: a checkout of an unknown cart id, of an empty cart, of a cart with an
\* item that fails its validation (its quantity above the stock, say) or of a
\* cart with an applied coupon that is not valid fails, returns no order and
\* changes neither the stock of any product nor the cart.
C2_CheckoutRejects ==
    [][(/\ ret'.op = "checkout"
        /\ \/ ret'.cart \notin CartIds
           \/ LET cart == carts[ret'.cart] IN
              \/ Len(cart.items) = 0
              \/ \E i \in 1..Len(cart.items) :
                    \/ ~Item_validate(products, cart.items[i])
                    \/ cart.items[i].quantity > products[cart.items[i].product].stock
              \/ \E i \in 1..Len(cart.appliedCoupons) :
                    ~isValid(coupons[cart.appliedCoupons[i]], now))
       => /\ ret'.result = "throw"
          /\ ret'.order = <<>>
          /\ UNCHANGED <<calls, products, catalog, coupons, carts>>
      ]_vars

\* a checkout has just failed on a cart whose only fault is an item above the stock
C2_Witness ==
    /\ ret.op = "checkout"
    /\ ret.result = "throw"
    /\ ret.cart \in CartIds
    /\ LET cart == carts[ret.cart] IN
       /\ Len(cart.items) = 2
       /\ \E i \in 1..Len(cart.items) :
             cart.items[i].quantity > products[cart.items[i].product].stock
       /\ \A i \in 1..Len(cart.appliedCoupons) :
             isValid(coupons[cart.appliedCoupons[i]], now)

\* C3: whatever addProduct, removeProduct, updateProductQuantity, clear and
\* checkout calls were made, no two items of a cart are of the same product.
C3_OneItemPerProduct ==
    \A cid \in CartIds : \A pid \in ProductIds :
        Cardinality(Lines(carts[cid], pid)) <= 1

\* a product was added a second time to a cart that holds two products
C3_Witness ==
    /\ ret.op = "addProduct"
    /\ ret.result = "true"
    /\ Len(carts[ret.cart].items) = 2
    /\ Units(carts[ret.cart], ret.arg) > ret.n

\* C4: when the cart holds an item of product P with quantity q, and n > 0 with
\* q + n <= P.stock, addProduct(P, n) returns true, the number of line items is
\* unchanged, the item of P has quantity exactly q + n, the other items are
\* untouched and getTotalItems has grown by n.
C4_AddProductMerges ==
    [][(/\ ret'.op = "addProduct"
        /\ ret'.n > 0
        /\ LET cart == carts[ret'.cart]
               i == FindItem(cart.items, ret'.arg)
           IN /\ i # 0
              /\ cart.items[i].quantity + ret'.n <= products[ret'.arg].stock)
       => LET cart == carts[ret'.cart]
              after == carts'[ret'.cart]
              i == FindItem(cart.items, ret'.arg)
          IN /\ ret'.result = "true"
             /\ Len(after.items) = Len(cart.items)
             /\ after.items[i].product = ret'.arg
             /\ after.items[i].quantity = cart.items[i].quantity + ret'.n
             /\ \A j \in 1..Len(cart.items) : j # i => after.items[j] = cart.items[j]
             /\ getTotalItems(after) = getTotalItems(cart) + ret'.n
      ]_vars

\* a product was added a second time to a cart that holds only that product
C4_Witness ==
    /\ ret.op = "addProduct"
    /\ ret.result = "true"
    /\ Len(carts[ret.cart].items) = 1
    /\ carts[ret.cart].items[1].product = ret.arg
    /\ carts[ret.cart].items[1].quantity > ret.n

\* C5: addProduct(P, n) returns false and leaves the items of the cart (the
\* products and every quantity) as they were when n <= 0, when P.stock < n, or
\* when P is in the cart with quantity q and q + n > P.stock.
C5_AddProductRejects ==
    [][(/\ ret'.op = "addProduct"
        /\ LET cart == carts[ret'.cart]
               i == FindItem(cart.items, ret'.arg)
           IN \/ ret'.n <= 0
              \/ products[ret'.arg].stock < ret'.n
              \/ /\ i # 0
                 /\ cart.items[i].quantity + ret'.n > products[ret'.arg].stock)
       => /\ ret'.result = "false"
          /\ carts'[ret'.cart].items = carts[ret'.cart].items
      ]_vars

\* an addProduct of a quantity in stock was refused because of the units of
\* the product that the cart holds already
C5_Witness ==
    /\ ret.op = "addProduct"
    /\ ret.result = "false"
    /\ ret.n > 0
    /\ products[ret.arg].stock >= ret.n
    /\ LET cart == carts[ret.cart]
           i == FindItem(cart.items, ret.arg)
       IN /\ i # 0
          /\ cart.items[i].quantity <= products[ret.arg].stock
          /\ cart.items[i].quantity + ret.n > products[ret.arg].stock

\* C6: right after a mutation that reports success (addProduct,
\* updateProductQuantity with a positive quantity, CartItem.updateQuantity,
\* increaseQuantity, decreaseQuantity, combineWith), the item it acted on has
\* a quantity q with 0 < q <= product.stock.
C6_QuantityWithinStock ==
    (/\ ret.result = "true"
     /\ \/ ret.op \in {"addProduct", "updateQuantity", "increaseQuantity",
                       "decreaseQuantity", "combineWith"}
        \/ ret.op = "updateProductQuantity" /\ ret.n > 0)
    => LET cart == carts[ret.cart]
           i == FindItem(cart.items, ret.arg)
       IN /\ i # 0
          /\ 0 < cart.items[i].quantity
          /\ cart.items[i].quantity <= products[ret.arg].stock

\* an item operation has just brought an item up to the whole stock of its product
C6_Witness ==
    /\ ret.op \in {"updateQuantity", "increaseQuantity", "combineWith"}
    /\ ret.result = "true"
    /\ ret.n > 0
    /\ products[ret.arg].stock = MaxStock
    /\ LET cart == carts[ret.cart]
           i == FindItem(cart.items, ret.arg)
       IN i # 0 /\ cart.items[i].quantity = MaxStock

\* C7: reduceStock(n) takes n from the stock and returns true exactly when
\* n <= stock, and otherwise returns false and leaves the stock as it was; and
\* the stock of a product is never negative, whatever reductions and checkouts
\* were made.
C7_ReduceStock ==
    /\ [](\A pid \in ProductIds : products[pid].stock >= 0)
    /\ [][(ret'.op = "reduceStock") =>
             LET pid == ret'.arg
                 n == ret'.n
             IN /\ \A other \in ProductIds \ {pid} : products'[other] = products[other]
                /\ IF n <= products[pid].stock
                   THEN /\ ret'.result = "true"
                        /\ products'[pid].stock = products[pid].stock - n
                   ELSE /\ ret'.result = "false"
                        /\ products'[pid].stock = products[pid].stock
         ]_vars

\* a reduction by more than what is left of a product has just been refused
\* after an earlier one went through
C7_Witness ==
    /\ ret.op = "reduceStock"
    /\ ret.result = "false"
    /\ ret.n > 0
    /\ products[ret.arg].stock < ret.n
    /\ products[ret.arg].stock < MaxStock

\* the figures of a cart computed from the prices and the quantities
C8_Reference(cart) ==
    LET I == 1..Len(cart.items)
        price(i) == products[cart.items[i].product].price
        discount(i) == products[cart.items[i].product].discount
        reduced(i) == IF discount(i) > 0
                      THEN (price(i) * (100 - discount(i))) \div 100
                      ELSE price(i)
        qty(i) == cart.items[i].quantity
        originalSubtotal == SumOver([i \in I |-> price(i) * qty(i)])
        productDiscounts == SumOver([i \in I |-> (price(i) - reduced(i)) * qty(i)])
        couponDiscounts ==
            SumOver([k \in 1..Len(cart.appliedCoupons) |->
                       calculateDiscount(coupons[cart.appliedCoupons[k]], now,
                                         originalSubtotal - productDiscounts)])
    IN [originalSubtotal |-> originalSubtotal,
        productDiscounts |-> productDiscounts,
        subtotal |-> originalSubtotal - productDiscounts,
        couponDiscounts |-> couponDiscounts,
        shippingCost |-> cart.shippingCost,
        total |-> Max(0, originalSubtotal - productDiscounts - couponDiscounts
                           + cart.shippingCost),
        totalSavings |-> productDiscounts + couponDiscounts]

\* C8: in every state of a cart getFinancialSummary is the reference pipeline:
\* originalSubtotal the sum of price x quantity, productDiscounts the sum of
\* discountAmount x quantity, subtotal their difference and also the sum of
\* finalPrice x quantity, total = max(0, subtotal - couponDiscounts +
\* shippingCost), totalSavings = productDiscounts + couponDiscounts; and total
\* is never negative.
C8_FinancialSummary ==
    \A cid \in CartIds :
        LET cart == carts[cid]
            summary == getFinancialSummary(cart, products, coupons, now)
        IN /\ summary = C8_Reference(cart)
           /\ summary.subtotal =
                 SumOver([i \in 1..Len(cart.items) |->
                            getFinalPrice(products[cart.items[i].product])
                               * cart.items[i].quantity])
           /\ summary.total >= 0

\* a cart whose coupons take more than its subtotal and its shipping cost
C8_Witness ==
    \E cid \in CartIds :
        LET cart == carts[cid]
            summary == getFinancialSummary(cart, products, coupons, now)
        IN /\ Len(cart.items) > 0
           /\ summary.subtotal - summary.couponDiscounts + summary.shippingCost < 0
           /\ summary.total = 0

\* the orderings of a list
C9_Orderings(s) ==
    LET n == Len(s) IN
    {[i \in 1..n |-> s[f[i]]] :
        f \in {g \in [1..n -> 1..n] : \A a, b \in 1..n : g[a] = g[b] => a = b}}

\* C9: couponDiscounts is the sum over the applied coupons of
\* calculateDiscount(subtotal), each coupon taken against the same subtotal
\* of the cart, and is the same in whatever order the coupons were applied.
C9_CouponDiscounts ==
    \A cid \in CartIds :
        LET cart == carts[cid]
            subtotal == getSubtotal(cart, products)
        IN /\ getCouponDiscounts(cart, products, coupons, now) =
                 SumOver([k \in 1..Len(cart.appliedCoupons) |->
                            calculateDiscount(coupons[cart.appliedCoupons[k]],
                                              now, subtotal)])
           /\ \A other \in C9_Orderings(cart.appliedCoupons) :
                 getCouponDiscounts([cart EXCEPT !.appliedCoupons = other],
                                    products, coupons, now) =
                 getCouponDiscounts(cart, products, coupons, now)

\* a cart with two applied coupons that both take something off its subtotal
C9_Witness ==
    \E cid \in CartIds :
        LET cart == carts[cid]
            subtotal == getSubtotal(cart, products)
        IN /\ Len(cart.appliedCoupons) = 2
           /\ \A k \in 1..2 :
                 calculateDiscount(coupons[cart.appliedCoupons[k]], now, subtotal) > 0

\* C10: calculateDiscount(amount) returns 0 when the coupon is not valid or
\* amount < minimumAmount, amount x value / 100 for a percentage coupon and
\* min(value, amount) for a fixed one; it changes no coupon; and what it
\* returns never exceeds amount.
C10_CalculateDiscount ==
    [][(ret'.op = "calculateDiscount") =>
         LET c == coupons[ret'.arg]
             amount == ret'.n
         IN /\ ret'.value =
                  IF ~isValid(c, now) \/ amount < c.minimumAmount THEN 0
                  ELSE IF c.type = "percentage" THEN (amount * c.value) \div 100
                  ELSE Min(c.value, amount)
            /\ coupons' = coupons
            /\ ret'.value <= amount
      ]_vars

\* C11: apply() returns true and adds exactly 1 to usageCount if and only if
\* the coupon is valid at the call (active, not expired, usageCount below the
\* limit when there is one); otherwise it returns false and changes nothing.
\* With a limit L no application succeeds once usageCount has reached L.
C11_Apply ==
    [][(ret'.op = "DiscountService.applyCoupon") =>
         LET c == coupons[ret'.arg]
             valid == /\ c.isActive
                      /\ (c.expiryDate = 0 \/ now <= c.expiryDate)
                      /\ (c.usageLimit = 0 \/ c.usageCount < c.usageLimit)
         IN /\ \A other \in CouponCodes \ {ret'.arg} : coupons'[other] = coupons[other]
            /\ IF valid
               THEN /\ ret'.result = "true"
                    /\ coupons'[ret'.arg] = [c EXCEPT !.usageCount = c.usageCount + 1]
               ELSE /\ ret'.result = "false"
                    /\ coupons'[ret'.arg] = c
      ]_vars

\* an active coupon that has not expired was used up to its limit of two and
\* the next application has just been refused
C11_Witness ==
    /\ ret.op = "DiscountService.applyCoupon"
    /\ ret.result = "false"
    /\ LET c == coupons[ret.arg] IN
       /\ c.isActive
       /\ (c.expiryDate = 0 \/ now <= c.expiryDate)
       /\ c.usageLimit = 2
       /\ c.usageCount = c.usageLimit

\* C12: the usageCount of a coupon is never negative and never above its limit
\* when it has one, whatever apply, revert and applyCouponToCart calls were
\* made; revert() leaves a usageCount of 0 at 0 and otherwise takes exactly 1
\* from it, and changes nothing else.
C12_UsageCount ==
    /\ [](\A code \in CouponCodes :
             LET c == coupons[code] IN
             /\ c.usageCount >= 0
             /\ (c.usageLimit # 0 => c.usageCount <= c.usageLimit))
    /\ [][(ret'.op = "DiscountService.revertCoupon") =>
             LET c == coupons[ret'.arg] IN
             coupons' = [coupons EXCEPT ![ret'.arg].usageCount =
                            IF c.usageCount = 0 THEN 0 ELSE c.usageCount - 1]
         ]_vars

\* a coupon used up to its limit of two has just been reverted once
C12_Witness ==
    /\ ret.op = "DiscountService.revertCoupon"
    /\ coupons[ret.arg].usageLimit = 2
    /\ coupons[ret.arg].usageCount = 1
    /\ \E code \in CouponCodes \ {ret.arg} : coupons[code].usageCount = 0

\* C13: applyCoupon(c) returns false and leaves appliedCoupons as it was when
\* c is not valid, when a coupon of the same code is applied already, or when
\* the subtotal of the cart is below c.minimumAmount; in every other case it
\* appends c to appliedCoupons and returns true.
C13_ApplyCoupon ==
    [][(ret'.op = "applyCoupon") =>
         LET cart == carts[ret'.cart]
             code == ret'.arg
             c == coupons[code]
             refused == \/ ~isValid(c, now)
                        \/ \E i \in 1..Len(cart.appliedCoupons) :
                              cart.appliedCoupons[i] = code
                        \/ getSubtotal(cart, products) < c.minimumAmount
         IN /\ carts'[ret'.cart].items = cart.items
            /\ carts'[ret'.cart].shippingCost = cart.shippingCost
            /\ IF refused
               THEN /\ ret'.result = "false"
                    /\ carts'[ret'.cart].appliedCoupons = cart.appliedCoupons
               ELSE /\ ret'.result = "true"
                    /\ carts'[ret'.cart].appliedCoupons =
                          Append(cart.appliedCoupons, code)
      ]_vars

\* a valid coupon that the cart does not hold has just been refused by a cart
\* with items whose subtotal is below the minimum amount of the coupon
C13_Witness ==
    /\ ret.op = "applyCoupon"
    /\ ret.result = "false"
    /\ LET cart == carts[ret.cart]
           c == coupons[ret.arg]
       IN /\ isValid(c, now)
          /\ \A i \in 1..Len(cart.appliedCoupons) : cart.appliedCoupons[i] # ret.arg
          /\ Len(cart.items) > 0
          /\ getSubtotal(cart, products) < c.minimumAmount

\* C14: whatever applyCoupon, removeCoupon, clear and checkout calls were
\* made, no two applied coupons of a cart have the same code.
C14_OneCouponPerCode ==
    \A cid \in CartIds :
        LET applied == carts[cid].appliedCoupons IN
        \A i, j \in 1..Len(applied) : applied[i] = applied[j] => i = j

\* a valid coupon has just been refused by a cart with two coupons that holds it
C14_Witness ==
    /\ ret.op = "applyCoupon"
    /\ ret.result = "false"
    /\ isValid(coupons[ret.arg], now)
    /\ LET applied == carts[ret.cart].appliedCoupons IN
       /\ Len(applied) = 2
       /\ \E i \in 1..Len(applied) : applied[i] = ret.arg

C16_Clear ==
    [][/\ (ret'.op = "clear") =>
             LET cart == carts[ret'.cart]
                 after == carts'[ret'.cart]
             IN /\ after.items = <<>>
                /\ after.appliedCoupons = <<>>
                /\ after.shippingCost = cart.shippingCost
                /\ after.shippingAddress = cart.shippingAddress
                /\ DOMAIN carts' = DOMAIN carts
                /\ \A other \in CartIds \ {ret'.cart} : carts'[other] = carts[other]
                /\ products' = products
                /\ coupons' = coupons
                /\ (cart.items = <<>> /\ cart.appliedCoupons = <<>>) => carts' = carts
       /\ (ret'.op = "checkout" /\ ret'.result = "order") =>
             LET cart == carts[ret'.cart]
                 after == carts'[ret'.cart]
             IN /\ after.items = <<>>
                /\ after.appliedCoupons = <<>>
                /\ after.shippingCost = cart.shippingCost
                /\ after.shippingAddress = cart.shippingAddress
                /\ DOMAIN carts' = DOMAIN carts
                /\ coupons' = coupons
      ]_vars

\* a cart with a shipping cost and an address has just been cleared, in a store
\* where a coupon was used and stock was sold
C16_Witness ==
    /\ ret.op = "clear"
    /\ carts[ret.cart].items = <<>>
    /\ carts[ret.cart].shippingCost > 0
    /\ carts[ret.cart].shippingAddress # "null"
    /\ \E code \in CouponCodes : coupons[code].usageCount > 0
    /\ \E pid \in ProductIds : products[pid].stock < MaxStock

\* the position of the first item of a cart whose product the catalog does not hold
C17_FirstMissing(cart) ==
    CHOOSE k \in 1..Len(cart.items) :
        /\ cart.items[k].product \notin catalog
        /\ \A j \in 1..(k - 1) : cart.items[j].product \in catalog

\* C17: when the stock reduction of some item fails during a checkout (the
\* cart passed its validation, the product of the item is not in the catalog
\* any more), the checkout fails, returns no order, leaves the cart with its
\* items and coupons, and the stock taken for the items before that one stays
\* taken.
C17_NoRollback ==
    [][(/\ ret'.op = "checkout"
        /\ ret'.cart \in CartIds
        /\ Cart_validate(carts[ret'.cart], products, coupons, now)
        /\ \E i \in 1..Len(carts[ret'.cart].items) :
              carts[ret'.cart].items[i].product \notin catalog)
       => LET cart == carts[ret'.cart]
              k == C17_FirstMissing(cart)
              before == [cart EXCEPT !.items = SubSeq(cart.items, 1, k - 1)]
          IN /\ ret'.result = "throw"
             /\ ret'.order = <<>>
             /\ carts' = carts
             /\ coupons' = coupons
             /\ \A pid \in ProductIds :
                   products'[pid] =
                      [products[pid] EXCEPT !.stock = @ - Units(before, pid)]
      ]_vars

\* a checkout has just failed on the second item of a cart, and the product
\* of the first item is left with less stock than the cart asks for
C17_Witness ==
    /\ ret.op = "checkout"
    /\ ret.result = "throw"
    /\ ret.cart \in CartIds
    /\ LET cart == carts[ret.cart] IN
       /\ Len(cart.items) = 2
       /\ cart.items[1].product \in catalog
       /\ cart.items[2].product \notin catalog
       /\ products[cart.items[1].product].stock < cart.items[1].quantity

\* what an order record shows to the one who holds it: its lines, its
\* financial summary and the coupons that its appliedCoupons refer to
C18_OrderData(order, K) ==
    [items |-> order.items,
     financialSummary |-> order.financialSummary,
     appliedCoupons |-> [i \in 1..Len(order.appliedCoupons) |->
                            K[order.appliedCoupons[i]]]]

\* C18: the operation that follows a checkout that returned an order, whatever
\* it is, leaves the lines of that order, its financial summary and the data
\* of its applied coupons as they were.
C18_OrderFrozen ==
    [][(ret.op = "checkout" /\ ret.result = "order") =>
         C18_OrderData(ret.order[1], coupons') = C18_OrderData(ret.order[1], coupons)
      ]_vars

\* C19: when updateProduct or updateCoupon rejects an update because the
\* entity so updated fails validate(), every field of every product and of
\* every coupon has the value it had before the call.
C19_RejectedUpdate ==
    [][(ret'.op \in {"updateProduct", "updateCoupon"} /\ ret'.result = "throw")
       => /\ products' = products
          /\ coupons' = coupons
      ]_vars

\* C20: a cart operation refused by a business rule (a quantity that is not
\* positive, not enough stock, a coupon that is not eligible or is applied
\* already) returns false and changes nothing, and never throws, whether it
\* is called on the cart (addProduct, updateProductQuantity, applyCoupon) or
\* through CartService (addProductToCart, updateProductQuantity,
\* applyCouponToCart) with a cart and a product that exist.
C20_RejectionsAreReturned ==
    [][(/\ ret'.cart \in CartIds
        /\ LET cart == carts[ret'.cart] IN
           \/ /\ ret'.op \in {"addProduct", "addProductToCart"}
              /\ ret'.arg \in catalog
              /\ LET i == FindItem(cart.items, ret'.arg) IN
                 \/ ret'.n <= 0
                 \/ products[ret'.arg].stock < ret'.n
                 \/ /\ i # 0
                    /\ cart.items[i].quantity + ret'.n > products[ret'.arg].stock
           \/ /\ ret'.op \in {"updateProductQuantity", "CartService.updateProductQuantity"}
              /\ ret'.arg \in catalog
              /\ FindItem(cart.items, ret'.arg) # 0
              /\ ret'.n > 0
              /\ products[ret'.arg].stock < ret'.n
           \/ /\ ret'.op \in {"applyCoupon", "applyCouponToCart"}
              /\ \/ ~isValid(coupons[ret'.arg], now)
                 \/ \E k \in 1..Len(cart.appliedCoupons) :
                       cart.appliedCoupons[k] = ret'.arg
                 \/ getSubtotal(cart, products) < coupons[ret'.arg].minimumAmount)
       => /\ ret'.result = "false"
          /\ UNCHANGED <<calls, products, catalog, coupons, carts>>
      ]_vars

\* C21: updateQuantity(n) with n <= 0 or n > product.stock returns false and
\* leaves the quantity of the item as it was; a decreaseQuantity that would
\* bring the quantity to 0 or below is refused and the item stays in the cart
\* with its quantity; combineWith either adds the whole quantity of the other
\* item and returns true or changes nothing and returns false.
C21_ItemRejects ==
    [][LET cart == carts[ret'.cart]
           i == FindItem(cart.items, ret'.arg)
           q == cart.items[i].quantity
           stock == products[ret'.arg].stock
       IN /\ (ret'.op = "updateQuantity" /\ (ret'.n <= 0 \/ ret'.n > stock))
                => (ret'.result = "false" /\ carts' = carts)
          /\ (ret'.op = "decreaseQuantity" /\ q - ret'.n <= 0)
                => (ret'.result = "false" /\ carts' = carts)
          /\ (ret'.op = "combineWith")
                => \/ /\ ret'.result = "true"
                      /\ carts' = [carts EXCEPT ![ret'.cart].items[i].quantity = q + ret'.n]
                   \/ /\ ret'.result = "false"
                      /\ carts' = carts
      ]_vars

\* an item has just refused to be decreased by its whole quantity or more
C21_Witness ==
    /\ ret.op = "decreaseQuantity"
    /\ ret.result = "false"
    /\ ret.n > 0
    /\ LET cart == carts[ret.cart]
           i == FindItem(cart.items, ret.arg)
       IN /\ i # 0
          /\ cart.items[i].quantity <= ret.n
          /\ cart.items[i].quantity <= products[ret.arg].stock

\* the items of a list that are not of product pid, in their order
C22_Without(items, pid) ==
    LET keep == {i \in 1..Len(items) : items[i].product # pid}
        nth(k) == CHOOSE i \in keep : Cardinality({j \in keep : j <= i}) = k
    IN [k \in 1..Cardinality(keep) |-> items[nth(k)]]

\* C22: updateProductQuantity(id, n) with n <= 0 does what removeProduct(id)
\* does: the item is removed and true returned if the cart held it, false and
\* no change otherwise.  With n > 0 and an item of id in the cart it sets the
\* quantity to n and returns true when n <= product.stock, and returns false
\* with no change otherwise; with n > 0 and no item of id it returns false
\* and changes nothing.
C22_UpdateProductQuantity ==
    [][(ret'.op = "updateProductQuantity") =>
         LET cart == carts[ret'.cart]
             pid == ret'.arg
             n == ret'.n
             i == FindItem(cart.items, pid)
         IN IF n <= 0
            THEN /\ ret'.result = Bool(i # 0)
                 /\ carts' = [carts EXCEPT ![ret'.cart].items = C22_Without(cart.items, pid)]
                 /\ carts'[ret'.cart] = removeProduct(cart, pid).cart
                 /\ (i = 0 => carts' = carts)
            ELSE IF i # 0 /\ n <= products[pid].stock
            THEN /\ ret'.result = "true"
                 /\ carts' = [carts EXCEPT ![ret'.cart].items[i].quantity = n]
            ELSE /\ ret'.result = "false"
                 /\ carts' = carts
      ]_vars

\* a quantity of 0 or below has just taken a product out of a cart that keeps
\* its other product
C22_Witness ==
    /\ ret.op = "updateProductQuantity"
    /\ ret.n <= 0
    /\ ret.result = "true"
    /\ Len(carts[ret.cart].items) = 1
    /\ carts[ret.cart].items[1].product # ret.arg

C24_RoundTrip ==
    (ret.op = "loadCarts") =>
        /\ DOMAIN ret.value = DOMAIN carts
        /\ \A cid \in DOMAIN carts :
              LET before == carts[cid]
                  after == ret.value[cid]
              IN /\ after.items = before.items
                 /\ Len(after.appliedCoupons) = Len(before.appliedCoupons)
                 /\ \A i \in 1..Len(before.appliedCoupons) :
                       after.appliedCoupons[i].code = before.appliedCoupons[i]
                 /\ after.shippingCost = before.shippingCost
                 /\ Loaded_getFinancialSummary(after, products, coupons, now)
                       = getFinancialSummary(before, products, coupons, now)

\* C25: right after CartService.applyCouponToCart returns true the coupon is
\* still valid, and it contributes to the coupon discounts of the cart the
\* discount that DiscountService.validateCoupon reported for the cart subtotal
\* before the application.
C25_AppliedCouponStaysValid ==
    [][(ret'.op = "applyCouponToCart" /\ ret'.result = "true") =>
          LET code == ret'.arg
              subtotal == getSubtotal(carts[ret'.cart], products)
              reported == validateCoupon(coupons, now, code, subtotal)
          IN /\ reported.isValid
             /\ isValid(coupons'[code], now')
             /\ calculateDiscount(coupons'[code], now',
                                  getSubtotal(carts'[ret'.cart], products'))
                   = reported.discount]_vars

\* the units of product pid on the lines of an order record
C26_Ordered(order, pid) ==
    SumOver([i \in {j \in 1..Len(order.items) : order.items[j].product = pid}
               |-> order.items[i].quantity])

\* C26: with every product left in the catalog, a checkout of a cart that
\* passes validate() does not fail: it returns an order, and the stock of
\* every product drops by the units of that product on the order; a checkout
\* of a cart that fails validate() throws and takes no stock at all.
C26_AllOrNone ==
    /\ [](catalog = ProductIds)
    /\ [][(ret'.op = "checkout" /\ ret'.cart \in CartIds) =>
             IF Cart_validate(carts[ret'.cart], products, coupons, now)
             THEN /\ ret'.result = "order"
                  /\ Len(ret'.order) = 1
                  /\ \A pid \in ProductIds :
                        products[pid].stock - products'[pid].stock
                           = C26_Ordered(ret'.order[1], pid)
             ELSE /\ ret'.result = "throw"
                  /\ ret'.order = <<>>
                  /\ products' = products
         ]_vars

\* a checkout has just returned an order of two lines, one of them for the
\* whole stock of its product, and no product has any stock left
C26_Witness ==
    /\ ret.op = "checkout"
    /\ ret.result = "order"
    /\ Len(ret.order[1].items) = 2
    /\ \E i \in 1..2 : ret.order[1].items[i].quantity = MaxStock
    /\ \A pid \in ProductIds : products[pid].stock = 0

\* C27: when checkout is invoked twice on the same cart, the second call
\* before the first has finished, at most one of the calls produces an order
\* record, and the stock of each product is reduced by no more than the
\* quantity of its item in the cart that was checked out.
C27_CommittedOnce ==
    /\ Cardinality({c \in CallIds : calls[c].order # <<>>}) <= 1
    /\ \A c \in CallIds :
          calls[c].items # <<>> =>
             \A pid \in ProductIds :
                InitProducts[pid].stock - products[pid].stock
                   <= Units([items |-> calls[c].items], pid)

\* C28 as stated: in every cart state the sum of the coupon discounts does not
\* exceed the cart subtotal, and getTotal() >= shippingCost.
C28_CouponsWithinSubtotal ==
    \A cid \in DOMAIN carts :
        /\ getCouponDiscounts(carts[cid], products, coupons, now)
              <= getSubtotal(carts[cid], products)
        /\ getTotal(carts[cid], products, coupons, now) >= carts[cid].shippingCost

\* C28: in every cart state getTotal() >= 0, and getTotal() >= shippingCost
\* exactly when the coupon discounts do not exceed the subtotal or the
\* shipping cost is 0; a cart with at most one applied coupon, whose coupon
\* and products pass validate(), has coupon discounts within its subtotal.
C28_TotalAndShipping ==
    \A cid \in DOMAIN carts :
        LET cart == carts[cid]
            subtotal == getSubtotal(cart, products)
            discounts == getCouponDiscounts(cart, products, coupons, now)
            total == getTotal(cart, products, coupons, now)
        IN /\ total >= 0
           /\ (total >= cart.shippingCost)
                 <=> (discounts <= subtotal \/ cart.shippingCost = 0)
           /\ (/\ Len(cart.appliedCoupons) <= 1
               /\ \A i \in 1..Len(cart.appliedCoupons) :
                     Coupon_validate(coupons[cart.appliedCoupons[i]])
               /\ \A i \in 1..Len(cart.items) :
                     Product_validate(products[cart.items[i].product]))
              => (discounts <= subtotal /\ total >= cart.shippingCost)

\* a cart with two coupons whose discounts sum to more than its subtotal is
\* charged less than its shipping cost
C28_Witness ==
    \E cid \in DOMAIN carts :
        LET cart == carts[cid]
            total == getTotal(cart, products, coupons, now)
        IN /\ Len(cart.appliedCoupons) = 2
           /\ getCouponDiscounts(cart, products, coupons, now) > getSubtotal(cart, products)
           /\ cart.shippingCost > 0
           /\ total > 0
           /\ total < cart.shippingCost

\* C29: when a coupon that CartService.applyCouponToCart has just put on a
\* cart is taken off by the next call (removeCouponFromCart of that coupon, or
\* clearCart of that cart), the use counted by the application is given back:
\* the usageCount of the coupon is again what it was before the application.
C29_ApplyRemoveRoundTrip ==
    [][(/\ ret.op = "applyCouponToCart"
        /\ ret.result = "true"
        /\ ret'.cart = ret.cart
        /\ \/ ret'.op = "clearCart"
           \/ (ret'.op = "removeCouponFromCart" /\ ret'.arg = ret.arg))
       => /\ ret.arg \notin {carts'[ret.cart].appliedCoupons[i] :
                                i \in 1..Len(carts'[ret.cart].appliedCoupons)}
          /\ coupons'[ret.arg].usageCount = coupons[ret.arg].usageCount - 1
      ]_vars

\* C30: every shipping option that getShippingOptions returns marked free
\* (isFreeShipping, shown as GRATIS) has cost 0, and selecting it leaves the
\* shipping cost of the cart at 0.
C30_FreeOptionCostsNothing ==
    (ret.op = "calculateShipping" /\ ret.result = "void") =>
        \A k \in 1..Len(ret.value) :
            (ret.value[k].isFreeShipping /\ ShownCost(ret.value[k]).label = "GRATIS") =>
                /\ ret.value[k].cost = 0
                /\ (ret.n = k) => carts[ret.cart].shippingCost = 0

====
